---- MODULE Spec2Model ----
(***************************************************************************)
(* Model of the CarND object-detection lab notebook: the detection         *)
(* post-processing utilities (filter_boxes, to_image_coords, draw_boxes),  *)
(* the sample-image cell that chains them, the parameter-count cell        *)
(* comparing vanilla_conv_block with mobilenet_conv_block, the computation *)
(* cost formulas of the Convolutions cell, time_detection, and the video   *)
(* cell with its pipeline function.                                        *)
(*                                                                         *)
(* Numbers.  Box coordinates are integers counting 1/Den of a unit, so the *)
(* normalized box (0.5, 0.25, 1.0, 0.75) is <<2, 1, 4, 3>>; products with  *)
(* an integer height or width are exact in this representation.  Scores    *)
(* and thresholds are integers counting tenths (0.8 is 8).  Array indexes  *)
(* are Python's, 0-based; the element with index i of a sequence s is      *)
(* s[i + 1].                                                               *)
(***************************************************************************)
EXTENDS Integers, Sequences, FiniteSets, TLC

\* ---------------------------------------------------------------- bounds
MaxN == 2          \* longest boxes / scores / classes array
PaletteLen == 2    \* len(COLOR_LIST) in the modelled environment
MaxKernel == 3     \* largest KERNEL_SIZE besides the notebook's
MaxChannels == 2   \* largest small channel count besides the notebook's
MaxDim == 3        \* largest D_f, M and D_k of the cost formulas
MaxFilters == 12   \* largest N of the cost formulas
MaxFrames == 2     \* longest video clip
MaxRuns == 2       \* largest runs argument of time_detection

Den == 2 * 2       \* coordinate unit: 1/Den

\* ------------------------------------------------------- input universes
DTypes == {"float32", "uint8"}

\* rows an array of the given element type can hold
BoxesOf(dt) ==
  IF dt = "uint8"
    THEN {<<0, 0, Den, Den>>, <<Den, 0, 2 * Den, Den>>}
    ELSE {<<2, 1, 4, 3>>, <<-1, 0, 6, 2>>}

Scores == {0, 8, 10}
confidence_cutoff == 8
MinScores == {-1, 0, confidence_cutoff, 10, 11}
Classes == 0..PaletteLen
\* image.size is (width, height)
ImageSizes == {<<1000, 600>>, <<3, 2>>}

SeqsUpTo(S, n) == UNION {[1..k -> S] : k \in 0..n}

\* ------------------------------------------------------------- variables
VARIABLES
  dtype,             \* element type of the boxes array
  boxes,             \* detector output: rows (top, left, bottom, right)
  scores,            \* detector output: confidences
  classes,           \* detector output: class ids
  min_score,         \* threshold passed to filter_boxes
  image_size,        \* image.size = (width, height)
  idxs,              \* filter_boxes: collected indexes
  filtered_boxes,    \* filter_boxes: results
  filtered_scores,
  filtered_classes,
  box_coords,        \* to_image_coords: result
  lines,             \* draw.line calls made by draw_boxes
  err,               \* exception raised by the last step, or "none"
  pc,                \* position in the sample-image cell
  again,             \* result of filtering the filtered batch once more
  storage,           \* whether a result array is a copy or a view of its input
  kernel_size,       \* KERNEL_SIZE
  input_channels,    \* INPUT_CHANNELS
  output_channels,   \* OUTPUT_CHANNELS
  vanilla_params,    \* (name, count) of the trainable variables, 'vanilla'
  mobile_params,     \* (name, count) of the trainable variables, 'mobile'
  total_vanilla_params,
  total_mobile_params,
  reduction,         \* printed reduction, in thousandths
  cerr,              \* exception raised by the parameter-count cell
  cpc,               \* position in the parameter-count cell
  D_f,               \* cost formulas: input feature map side
  M,                 \* cost formulas: input channels
  N,                 \* cost formulas: output channels
  D_k,               \* cost formulas: kernel side
  vanilla_cost,      \* cost of the vanilla convolution
  separable_cost,    \* cost of the separable depthwise convolution
  costpc,            \* position in the cost computation
  clip,              \* frames of the input video
  new_clip,          \* frames given to the output video
  verr,              \* exception raised by the video cell
  vpc,               \* position in the video cell
  img_height,        \* time_detection arguments
  img_width,
  runs,
  image_np,          \* shape of the module-level image_np, or Undefined
  fed,               \* shapes of the images fed to sess.run, in call order
  elapsed,           \* measured t1 - t0 of each timed run, in ms
  times,             \* the times array
  ti,                \* loop index of time_detection
  terr,              \* exception raised by time_detection
  tpc                \* position in time_detection

detVars == <<dtype, boxes, scores, classes, min_score, image_size, idxs,
             filtered_boxes, filtered_scores, filtered_classes, box_coords,
             lines, err, pc, again, storage>>
convVars == <<kernel_size, input_channels, output_channels, vanilla_params,
              mobile_params, total_vanilla_params, total_mobile_params,
              reduction, cerr, cpc>>
costVars == <<D_f, M, N, D_k, vanilla_cost, separable_cost, costpc>>
videoVars == <<clip, new_clip, verr, vpc>>
timeVars == <<img_height, img_width, runs, image_np, fed, elapsed, times, ti,
              terr, tpc>>
auxVars == <<costVars, videoVars, timeVars>>
vars == <<detVars, convVars, auxVars>>

\* ---------------------------------------------------------- filter_boxes
\* the loop with `>` written for `>=`
RECURSIVE CollectIdxs_strict(_, _, _, _, _)
CollectIdxs_strict(sc, ms, n, i, acc) ==
  IF i >= n THEN acc
  ELSE CollectIdxs_strict(sc, ms, n, i + 1,
                          IF sc[i + 1] > ms THEN Append(acc, i) ELSE acc)

\* the loop written over range(n - 1)
RECURSIVE CollectIdxs_short(_, _, _, _, _)
CollectIdxs_short(sc, ms, n, i, acc) ==
  IF i >= n - 1 THEN acc
  ELSE CollectIdxs_short(sc, ms, n, i + 1,
                         IF sc[i + 1] >= ms THEN Append(acc, i) ELSE acc)

\* the loop `for i in range(n): if scores[i] >= min_score: idxs.append(i)`,
\* from index i on, acc being idxs so far
RECURSIVE CollectIdxs(_, _, _, _, _)
CollectIdxs(sc, ms, n, i, acc) ==
  IF i >= n THEN acc
  ELSE CollectIdxs(sc, ms, n, i + 1,
                   IF sc[i + 1] >= ms THEN Append(acc, i) ELSE acc)

\* fancy indexing arr[ix, ...]
Take(arr, ix) == [k \in 1..Len(ix) |-> arr[ix[k] + 1]]

\* arr[ix, ...] raises IndexError when an index is out of bounds
TakeFails(arr, ix) == \E k \in 1..Len(ix) : ix[k] >= Len(arr)

\* filter_boxes taking the classes from the front of the array
filter_boxes_misaligned(ms, bx, sc, cl) ==
  LET n == Len(cl) IN
  IF n > Len(sc)
    THEN [err |-> "IndexError", idxs |-> <<>>, boxes |-> <<>>,
          scores |-> <<>>, classes |-> <<>>]
    ELSE LET ix == CollectIdxs(sc, ms, n, 0, <<>>) IN
         IF TakeFails(bx, ix)
           THEN [err |-> "IndexError", idxs |-> ix, boxes |-> <<>>,
                 scores |-> <<>>, classes |-> <<>>]
           ELSE [err |-> "none", idxs |-> ix, boxes |-> Take(bx, ix),
                 scores |-> Take(sc, ix), classes |-> SubSeq(cl, 1, Len(ix))]

\* filter_boxes checking its arguments first
filter_boxes_validating(ms, bx, sc, cl) ==
  IF Len(bx) # Len(sc) \/ Len(sc) # Len(cl) \/ ms < 0 \/ ms > 10
    THEN [err |-> "InvalidInputError", idxs |-> <<>>, boxes |-> <<>>,
          scores |-> <<>>, classes |-> <<>>]
    ELSE LET ix == CollectIdxs(sc, ms, Len(cl), 0, <<>>) IN
         [err |-> "none", idxs |-> ix, boxes |-> Take(bx, ix),
          scores |-> Take(sc, ix), classes |-> Take(cl, ix)]

filter_boxes(ms, bx, sc, cl) ==
  LET n == Len(cl) IN
  IF n > Len(sc)
    THEN [err |-> "IndexError", idxs |-> <<>>, boxes |-> <<>>,
          scores |-> <<>>, classes |-> <<>>]
    ELSE LET ix == CollectIdxs(sc, ms, n, 0, <<>>) IN
         IF TakeFails(bx, ix)
           THEN [err |-> "IndexError", idxs |-> ix, boxes |-> <<>>,
                 scores |-> <<>>, classes |-> <<>>]
           ELSE [err |-> "none", idxs |-> ix, boxes |-> Take(bx, ix),
                 scores |-> Take(sc, ix), classes |-> Take(cl, ix)]

\* ------------------------------------------------------- to_image_coords
\* a value stored into an array of element type dt
Cast(dt, x) == IF dt = "uint8" THEN ((x \div Den) % (2 ^ 8)) * Den ELSE x

\* to_image_coords with the two scales exchanged
to_image_coords_swapped(bx, height, width, dt) ==
  [k \in 1..Len(bx) |->
     <<Cast(dt, bx[k][1] * width), Cast(dt, bx[k][2] * height),
       Cast(dt, bx[k][3] * width), Cast(dt, bx[k][4] * height)>>]

\* box_coords = np.zeros_like(boxes); box_coords[:, c] = boxes[:, c] * scale
to_image_coords(bx, height, width, dt) ==
  [k \in 1..Len(bx) |->
     <<Cast(dt, bx[k][1] * height), Cast(dt, bx[k][2] * width),
       Cast(dt, bx[k][3] * height), Cast(dt, bx[k][4] * width)>>]

\* ------------------------------------------------------------ draw_boxes
\* the sorted colour names, each named by its rank
COLOR_LIST == [i \in 1..PaletteLen |-> i - 1]

\* the draw.line call with the row unpacked as top, left, bot, right
BoxLine_unswapped(b, class_id) ==
  LET top == b[1]
      left == b[2]
      bot == b[3]
      right == b[4]
  IN [xy |-> <<<<left, top>>, <<left, bot>>, <<right, bot>>,
               <<right, top>>, <<left, top>>>>,
      fill |-> COLOR_LIST[class_id + 1]]

\* the draw.line call for one box
BoxLine(b, class_id) ==
  LET bot == b[1]
      left == b[2]
      top == b[3]
      right == b[4]
  IN [xy |-> <<<<left, top>>, <<left, bot>>, <<right, bot>>,
               <<right, top>>, <<left, top>>>>,
      fill |-> COLOR_LIST[class_id + 1]]

\* the loop of draw_boxes from box i on; acc is the lines drawn so far
RECURSIVE draw_loop(_, _, _, _)
draw_loop(bx, cl, i, acc) ==
  IF i >= Len(bx) THEN [err |-> "none", lines |-> acc]
  ELSE IF i >= Len(cl) \/ cl[i + 1] >= PaletteLen
    THEN [err |-> "IndexError", lines |-> acc]
    ELSE draw_loop(bx, cl, i + 1, Append(acc, BoxLine(bx[i + 1], cl[i + 1])))

draw_boxes(bx, cl) == draw_loop(bx, cl, 0, <<>>)

\* ------------------------------------------------------ array storage
\* arr[idxs, ...] with a list of indexes is advanced indexing: the result is
\* a new array
FancyIndexStorage_view == "view"

FancyIndexStorage == "copy"

\* np.zeros_like(boxes) allocates a new array
ZerosLikeStorage == "copy"

NoStorage == [filtered |-> "none", coords |-> "none"]
NotFiltered == [err |-> "not called", idxs |-> <<>>, boxes |-> <<>>,
                scores |-> <<>>, classes |-> <<>>]

\* result[k] += 1 on a one-dimensional array, result[k, 0] += 1 on the boxes
Bump(arr, k) == [arr EXCEPT ![k] = @ + 1]
BumpRow(rows, k, dt) == [rows EXCEPT ![k][1] = Cast(dt, @ + Den)]

\* what a caller holds: the triple filter_boxes returned, and box_coords
Results == {"filtered", "box_coords"}

\* ------------------------------------------- sample-image detection cell
CostIdle ==
  /\ D_f = 0 /\ M = 0 /\ N = 0 /\ D_k = 0
  /\ vanilla_cost = 0 /\ separable_cost = 0 /\ costpc = "idle"

VideoIdle == clip = <<>> /\ new_clip = <<>> /\ verr = "none" /\ vpc = "idle"

Undefined == <<>>

TimeIdle ==
  /\ img_height = 0 /\ img_width = 0 /\ runs = 0 /\ image_np = Undefined
  /\ fed = <<>> /\ elapsed = <<>> /\ times = <<>> /\ ti = 0
  /\ terr = "none" /\ tpc = "idle"

ConvIdle ==
  /\ kernel_size = 0 /\ input_channels = 0 /\ output_channels = 0
  /\ vanilla_params = <<>> /\ mobile_params = <<>>
  /\ total_vanilla_params = 0 /\ total_mobile_params = 0
  /\ reduction = [kind |-> "none", milli |-> 0] /\ cerr = "none"
  /\ cpc = "idle"

Init ==
  /\ dtype \in DTypes
  /\ boxes \in SeqsUpTo(BoxesOf(dtype), MaxN)
  /\ scores \in SeqsUpTo(Scores, MaxN)
  /\ classes \in SeqsUpTo(Classes, MaxN)
  /\ min_score \in MinScores
  /\ image_size \in ImageSizes
  /\ idxs = <<>> /\ filtered_boxes = <<>> /\ filtered_scores = <<>>
  /\ filtered_classes = <<>> /\ box_coords = <<>> /\ lines = <<>>
  /\ err = "none" /\ pc = "start"
  /\ again = NotFiltered /\ storage = NoStorage
  /\ ConvIdle /\ CostIdle /\ VideoIdle /\ TimeIdle

\* boxes, scores, classes = filter_boxes(confidence_cutoff, boxes, ...)
FilterBoxes ==
  /\ pc = "start"
  /\ LET r == filter_boxes(min_score, boxes, scores, classes) IN
     /\ err' = r.err
     /\ idxs' = r.idxs
     /\ filtered_boxes' = r.boxes
     /\ filtered_scores' = r.scores
     /\ filtered_classes' = r.classes
     /\ pc' = IF r.err = "none" THEN "filtered" ELSE "filter_failed"
     /\ storage' = IF r.err = "none"
                     THEN [storage EXCEPT !.filtered = FancyIndexStorage]
                     ELSE storage
  /\ UNCHANGED <<dtype, boxes, scores, classes, min_score, image_size,
                 box_coords, lines, again, convVars, auxVars>>

\* width, height = image.size; box_coords = to_image_coords(boxes, height, width)
ToImageCoords ==
  /\ pc = "filtered"
  /\ LET width == image_size[1]
         height == image_size[2]
     IN box_coords' = to_image_coords(filtered_boxes, height, width, dtype)
  /\ storage' = [storage EXCEPT !.coords = ZerosLikeStorage]
  \* the column assignments go to box_coords, which is boxes itself only if
  \* no new array was allocated
  /\ filtered_boxes' = IF ZerosLikeStorage = "view" THEN box_coords'
                                                     ELSE filtered_boxes
  /\ pc' = "converted"
  /\ UNCHANGED <<dtype, boxes, scores, classes, min_score, image_size, idxs,
                 filtered_scores, filtered_classes, lines, err, again,
                 convVars, auxVars>>

\* draw_boxes(image, box_coords, classes)
DrawBoxes ==
  /\ pc = "converted"
  /\ LET r == draw_boxes(box_coords, filtered_classes) IN
     /\ lines' = r.lines
     /\ err' = r.err
     /\ pc' = IF r.err = "none" THEN "drawn" ELSE "draw_failed"
  /\ UNCHANGED <<dtype, boxes, scores, classes, min_score, image_size, idxs,
                 filtered_boxes, filtered_scores, filtered_classes,
                 box_coords, again, storage, convVars, auxVars>>

\* filter_boxes(min_score, *filter_boxes(min_score, boxes, scores, classes))
FilterAgain ==
  /\ pc = "filtered"
  /\ again' = filter_boxes(min_score, filtered_boxes, filtered_scores,
                           filtered_classes)
  /\ pc' = "refiltered"
  /\ UNCHANGED <<dtype, boxes, scores, classes, min_score, image_size, idxs,
                 filtered_boxes, filtered_scores, filtered_classes,
                 box_coords, lines, err, storage, convVars, auxVars>>

\* the caller increments the elements of one detection in the arrays a call
\* returned; an array that is a view of its input shares them with it
WriteResult ==
  /\ pc \in {"drawn", "draw_failed"}
  /\ \E target \in Results, k \in 1..Len(filtered_scores) :
       LET i == idxs[k] + 1
           view == storage.filtered = "view"
           alias == storage.coords = "view"
           new_coords == IF target = "box_coords" \/ alias
                           THEN BumpRow(box_coords, k, dtype)
                           ELSE box_coords
           new_fboxes == IF alias THEN new_coords
                         ELSE IF target = "filtered"
                           THEN BumpRow(filtered_boxes, k, dtype)
                           ELSE filtered_boxes
       IN /\ box_coords' = new_coords
          /\ filtered_boxes' = new_fboxes
          /\ filtered_scores' = IF target = "filtered"
                                  THEN Bump(filtered_scores, k)
                                  ELSE filtered_scores
          /\ filtered_classes' = IF target = "filtered"
                                   THEN Bump(filtered_classes, k)
                                   ELSE filtered_classes
          /\ boxes' = IF view THEN [boxes EXCEPT ![i] = new_fboxes[k]]
                              ELSE boxes
          /\ scores' = IF view THEN [scores EXCEPT ![i] = filtered_scores'[k]]
                               ELSE scores
          /\ classes' = IF view
                          THEN [classes EXCEPT ![i] = filtered_classes'[k]]
                          ELSE classes
  /\ pc' = "written"
  /\ UNCHANGED <<dtype, min_score, image_size, idxs, lines, err, again,
                 storage, convVars, auxVars>>

Next ==
  FilterBoxes \/ ToImageCoords \/ DrawBoxes \/ FilterAgain \/ WriteResult

Spec == Init /\ [][Next]_vars

\* ------------------------------------------------- parameter-count cell
INPUT_CHANNELS == 32
OUTPUT_CHANNELS == 512
KERNEL_SIZE == 3

KernelSizes == 0..MaxKernel \cup {KERNEL_SIZE}
InputChannelCounts == 0..MaxChannels \cup {INPUT_CHANNELS}
OutputChannelCounts == 0..MaxChannels \cup {OUTPUT_CHANNELS}

\* trainable variables created by tf.layers.conv2d(x, filters, kernel_size):
\* a kernel and, use_bias being left at its default, a bias
conv2d(name, kh, kw, in_ch, filters) ==
  <<[name |-> name \o "/kernel", shape |-> <<kh, kw, in_ch, filters>>],
    [name |-> name \o "/bias", shape |-> <<filters>>]>>

\* trainable variables created by tf.layers.batch_normalization(x): gamma and
\* beta, one per channel (the moving statistics are not trainable)
batch_normalization(name, channels) ==
  <<[name |-> name \o "/gamma", shape |-> <<channels>>],
    [name |-> name \o "/beta", shape |-> <<channels>>]>>

\* the vanilla block with a convolution that has no bias
vanilla_conv_block_nobias(in_ch, k, out_ch) ==
  <<[name |-> "vanilla/conv2d/kernel", shape |-> <<k, k, in_ch, out_ch>>]>>
    \o batch_normalization("vanilla/batch_normalization", out_ch)

\* Vanilla Conv -> Batch Norm -> ReLU
vanilla_conv_block(in_ch, k, out_ch) ==
  conv2d("vanilla/conv2d", k, k, in_ch, out_ch)
    \o batch_normalization("vanilla/batch_normalization", out_ch)

\* the separable block with a pointwise convolution that has no bias
mobilenet_conv_block_nobias(in_ch, k, out_ch) ==
  <<[name |-> "mobile/Variable", shape |-> <<k, k, in_ch, 1>>]>>
    \o batch_normalization("mobile/batch_normalization", in_ch)
    \o <<[name |-> "mobile/conv2d/kernel", shape |-> <<1, 1, in_ch, out_ch>>]>>
    \o batch_normalization("mobile/batch_normalization_1", out_ch)

\* the separable block leaving nothing in the 'mobile' trainable collection
mobilenet_conv_block_untrainable(in_ch, k, out_ch) == <<>>

\* Depthwise Conv -> Batch Norm -> ReLU -> Pointwise Conv -> Batch Norm -> ReLU
mobilenet_conv_block(in_ch, k, out_ch) ==
  <<[name |-> "mobile/Variable", shape |-> <<k, k, in_ch, 1>>]>>
    \o batch_normalization("mobile/batch_normalization", in_ch)
    \o conv2d("mobile/conv2d", 1, 1, in_ch, out_ch)
    \o batch_normalization("mobile/batch_normalization_1", out_ch)

RECURSIVE np_prod(_)
np_prod(shape) ==
  IF shape = <<>> THEN 1 ELSE Head(shape) * np_prod(Tail(shape))

\* [(v.name, np.prod(v.get_shape().as_list())) for v in tf.get_collection(...)]
ParamList(variables) ==
  [i \in 1..Len(variables) |->
     <<variables[i].name, np_prod(variables[i].shape)>>]

\* sum([p[1] for p in params])
RECURSIVE sum_counts(_)
sum_counts(params) ==
  IF params = <<>> THEN 0 ELSE Head(params)[2] + sum_counts(Tail(params))

\* the quotient taken with floor division
Format3f_floordiv(a, b) == 1000 * (a \div b)

\* "{0:.3f}".format(a / b) for b # 0, as a number of thousandths
Format3f(a, b) == (2000 * a + b) \div (2 * b)

\* total_vanilla_params / total_mobile_params: the totals are numpy integers
\* when the lists are not empty (a zero divisor gives nan or inf and a
\* warning) and the Python int 0 when a list is empty
Divide(a, b, b_is_numpy) ==
  IF b # 0 THEN [err |-> "none", kind |-> "finite", milli |-> Format3f(a, b)]
  ELSE IF ~b_is_numpy
    THEN [err |-> "ZeroDivisionError", kind |-> "none", milli |-> 0]
  ELSE IF a = 0 THEN [err |-> "none", kind |-> "nan", milli |-> 0]
  ELSE [err |-> "none", kind |-> "inf", milli |-> 0]

NoReduction == [kind |-> "none", milli |-> 0]

\* the cell checks none of its constants; with a non-positive one the
\* framework either builds a graph over empty tensors or raises its own error
BuildOutcomes(k, in_ch, out_ch) ==
  IF k > 0 /\ in_ch > 0 /\ out_ch > 0 THEN {"none"}
  ELSE {"none", "ValueError"}

DetIdle ==
  /\ dtype = "float32" /\ boxes = <<>> /\ scores = <<>> /\ classes = <<>>
  /\ min_score = 0 /\ image_size = <<0, 0>>
  /\ idxs = <<>> /\ filtered_boxes = <<>> /\ filtered_scores = <<>>
  /\ filtered_classes = <<>> /\ box_coords = <<>> /\ lines = <<>>
  /\ err = "none" /\ pc = "idle"
  /\ again = NotFiltered /\ storage = NoStorage

InitConv ==
  /\ kernel_size \in KernelSizes
  /\ input_channels \in InputChannelCounts
  /\ output_channels \in OutputChannelCounts
  /\ vanilla_params = <<>> /\ mobile_params = <<>>
  /\ total_vanilla_params = 0 /\ total_mobile_params = 0
  /\ reduction = NoReduction /\ cerr = "none" /\ cpc = "start"
  /\ DetIdle /\ CostIdle /\ VideoIdle /\ TimeIdle

\* with tf.variable_scope('vanilla'): vanilla_conv_block(x, KERNEL_SIZE, ...)
\* with tf.variable_scope('mobile'): mobilenet_conv_block(x, KERNEL_SIZE, ...)
BuildBlocks ==
  /\ cpc = "start"
  /\ \E e \in BuildOutcomes(kernel_size, input_channels, output_channels) :
       IF e = "none"
         THEN /\ vanilla_params' = ParamList(
                   vanilla_conv_block(input_channels, kernel_size,
                                      output_channels))
              /\ mobile_params' = ParamList(
                   mobilenet_conv_block(input_channels, kernel_size,
                                        output_channels))
              /\ cpc' = "built"
              /\ cerr' = "none"
         ELSE /\ cerr' = e
              /\ cpc' = "failed"
              /\ UNCHANGED <<vanilla_params, mobile_params>>
  /\ UNCHANGED <<kernel_size, input_channels, output_channels,
                 total_vanilla_params, total_mobile_params, reduction,
                 detVars, auxVars>>

\* total_vanilla_params = sum(...); total_mobile_params = sum(...)
CountParams ==
  /\ cpc = "built"
  /\ total_vanilla_params' = sum_counts(vanilla_params)
  /\ total_mobile_params' = sum_counts(mobile_params)
  /\ cpc' = "counted"
  /\ UNCHANGED <<kernel_size, input_channels, output_channels,
                 vanilla_params, mobile_params, reduction, cerr, detVars, auxVars>>

\* print("{0:.3f}x parameter reduction".format(total_vanilla / total_mobile))
PrintReduction ==
  /\ cpc = "counted"
  /\ LET r == Divide(total_vanilla_params, total_mobile_params,
                     mobile_params # <<>>) IN
     /\ reduction' = [kind |-> r.kind, milli |-> r.milli]
     /\ cerr' = r.err
     /\ cpc' = IF r.err = "none" THEN "done" ELSE "failed"
  /\ UNCHANGED <<kernel_size, input_channels, output_channels,
                 vanilla_params, mobile_params, total_vanilla_params,
                 total_mobile_params, detVars, auxVars>>

NextConv == BuildBlocks \/ CountParams \/ PrintReduction

SpecConv == InitConv /\ [][NextConv]_vars

\* ------------------------------------- computation cost (Convolutions cell)
\* D_f * D_f * M * N * D_k * D_k
vanilla_conv_cost(df, m, n, dk) == df * df * m * n * dk * dk

\* D_f * D_f * M * D_k * D_k
depthwise_conv_cost(df, m, dk) == df * df * m * dk * dk

\* the pointwise cost with the kernel side left in
pointwise_conv_cost_kernel(df, m, n, dk) == dk * dk * df * df * m * n

\* 1 * 1 * D_f * D_f * M * N
pointwise_conv_cost(df, m, n, dk) == 1 * 1 * df * df * m * n

\* D_f * D_f * M * D_k * D_k + D_f * D_f * M * N
separable_conv_cost(df, m, n, dk) ==
  depthwise_conv_cost(df, m, dk) + pointwise_conv_cost(df, m, n, dk)

InitCost ==
  /\ D_f \in 1..MaxDim /\ M \in 1..MaxDim /\ D_k \in 1..MaxDim
  /\ N \in 1..MaxFilters
  /\ vanilla_cost = 0 /\ separable_cost = 0 /\ costpc = "start"
  /\ DetIdle /\ ConvIdle /\ VideoIdle /\ TimeIdle

ComputeCosts ==
  /\ costpc = "start"
  /\ vanilla_cost' = vanilla_conv_cost(D_f, M, N, D_k)
  /\ separable_cost' = separable_conv_cost(D_f, M, N, D_k)
  /\ costpc' = "done"
  /\ UNCHANGED <<D_f, M, N, D_k, detVars, convVars, videoVars, timeVars>>

NextCost == ComputeCosts

SpecCost == InitCost /\ [][NextCost]_vars

\* ------------------------------------------------ video processing cell
\* what the detector reports on a frame: at most one detection
VideoFrames ==
  {[boxes |-> <<>>, scores |-> <<>>, classes |-> <<>>]}
    \cup {[boxes |-> <<b>>, scores |-> <<sc>>, classes |-> <<c>>] :
            b \in BoxesOf("float32"), sc \in Scores, c \in Classes}

Clips == UNION {[1..k -> VideoFrames] : k \in 1..MaxFrames}

\* the value of a function whose body is `pass`
None == [kind |-> "None", rendered |-> <<>>]

\* def pipeline(img): pass
pipeline(img) == None

\* clip.fl_image(pipeline) and write_videofile: pipeline is applied to the
\* frames in order, from frame i on; a value that is not an image stops the
\* cell with an error
RECURSIVE process_frames(_, _, _)
process_frames(frames, i, acc) ==
  IF i > Len(frames) THEN [err |-> "none", frames |-> acc]
  ELSE LET out == pipeline(frames[i]) IN
       IF out.kind # "frame"
         THEN [err |-> "FrameError", frames |-> acc]
         ELSE process_frames(frames, i + 1, Append(acc, out))

InitVideo ==
  /\ clip \in Clips
  /\ new_clip = <<>> /\ verr = "none" /\ vpc = "start"
  /\ DetIdle /\ ConvIdle /\ CostIdle /\ TimeIdle

VideoCell ==
  /\ vpc = "start"
  /\ LET r == process_frames(clip, 1, <<>>) IN
     /\ new_clip' = r.frames
     /\ verr' = r.err
     /\ vpc' = IF r.err = "none" THEN "done" ELSE "failed"
  /\ UNCHANGED <<clip, detVars, convVars, costVars, timeVars>>

NextVideo == VideoCell

SpecVideo == InitVideo /\ [][NextVideo]_vars

\* -------------------------------------------------------- time_detection
ElapsedSeconds == {0, 1}

\* shape of an image of the given image.size, with the batch dimension
ShapeOf(size) == <<1, size[2], size[1], 3>>

InitTime ==
  /\ img_height \in {size[2] : size \in ImageSizes}
  /\ img_width \in {size[1] : size \in ImageSizes}
  /\ runs \in 0..MaxRuns
  /\ image_np \in {Undefined} \cup {ShapeOf(size) : size \in ImageSizes}
  /\ fed = <<>> /\ elapsed = <<>> /\ times = <<>> /\ ti = 0
  /\ terr = "none" /\ tpc = "start"
  /\ DetIdle /\ ConvIdle /\ CostIdle /\ VideoIdle

\* gen_image = np.uint8(np.random.randn(1, img_height, img_width, 3));
\* sess.run(..., feed_dict={image_tensor: gen_image}); times = np.zeros(runs)
Warmup ==
  /\ tpc = "start"
  /\ LET gen_image == <<1, img_height, img_width, 3>> IN
     fed' = Append(fed, gen_image)
  /\ times' = [i \in 1..runs |-> 0]
  /\ ti' = 0
  /\ tpc' = "loop"
  /\ UNCHANGED <<img_height, img_width, runs, image_np, elapsed, terr,
                 detVars, convVars, costVars, videoVars>>

\* one pass of `for i in range(runs)`: sess.run(..., feed_dict={image_tensor:
\* image_np}) between t0 and t1, then times[i] = (t1 - t0) * 1000
TimedRun ==
  /\ tpc = "loop" /\ ti < runs
  /\ IF image_np = Undefined
       THEN /\ terr' = "NameError"
            /\ tpc' = "failed"
            /\ UNCHANGED <<fed, elapsed, times, ti>>
       ELSE /\ \E dt \in ElapsedSeconds :
                 /\ elapsed' = Append(elapsed, dt)
                 /\ times' = [times EXCEPT ![ti + 1] = dt * 1000]
            /\ fed' = Append(fed, image_np)
            /\ ti' = ti + 1
            /\ UNCHANGED <<terr, tpc>>
  /\ UNCHANGED <<img_height, img_width, runs, image_np, detVars, convVars,
                 costVars, videoVars>>

\* return times
ReturnTimes ==
  /\ tpc = "loop" /\ ti >= runs
  /\ tpc' = "done"
  /\ UNCHANGED <<img_height, img_width, runs, image_np, fed, elapsed, times,
                 ti, terr, detVars, convVars, costVars, videoVars>>

NextTime == Warmup \/ TimedRun \/ ReturnTimes

SpecTime == InitTime /\ [][NextTime]_vars

\* ================================================================ claims
\* -------------------------------------------- detection post-processing
EqualLengths == Len(boxes) = Len(scores) /\ Len(scores) = Len(classes)

FilterReturned == pc \in {"filtered", "converted", "drawn", "draw_failed"}
FilterCalled == FilterReturned \/ pc = "filter_failed"
Converted == pc \in {"converted", "drawn", "draw_failed"}
DrawCalled == pc \in {"drawn", "draw_failed"}

\* the batch as a sequence of detections (box, score, class)
Detections(bx, sc, cl) == [i \in 1..Len(sc) |-> <<bx[i], sc[i], cl[i]>>]

IsConfident(d) == d[2] >= min_score

\* C1: on a batch of equal lengths filter_boxes returns exactly the
\* detections with score >= min_score (equality kept), in input order, and
\* an empty batch, not an error, when none qualifies.
C1_FilterKeepsConfident ==
  (FilterCalled /\ EqualLengths) =>
     /\ FilterReturned
     /\ Len(filtered_boxes) = Len(filtered_scores)
     /\ Len(filtered_classes) = Len(filtered_scores)
     /\ Detections(filtered_boxes, filtered_scores, filtered_classes)
          = SelectSeq(Detections(boxes, scores, classes), IsConfident)

\* a score equal to the threshold is kept while a smaller one before it and
\* after it is dropped
C1_Witness ==
  /\ pc = "filtered" /\ EqualLengths
  /\ scores = <<8, 10>> /\ min_score = 10
  /\ filtered_scores = <<10>>

\* C2: the three returned arrays have one length n' with 0 <= n' <= n, and
\* every output position holds the box, score and class of one input index.
C2_FilterAligned ==
  (FilterReturned /\ EqualLengths) =>
     /\ Len(filtered_boxes) = Len(filtered_scores)
     /\ Len(filtered_classes) = Len(filtered_scores)
     /\ Len(filtered_scores) <= Len(scores)
     /\ \A k \in 1..Len(filtered_scores) :
          \E i \in 1..Len(scores) :
            /\ filtered_boxes[k] = boxes[i]
            /\ filtered_scores[k] = scores[i]
            /\ filtered_classes[k] = classes[i]

\* the second of two detections that differ in every array is the one kept
C2_Witness ==
  /\ pc = "filtered" /\ EqualLengths /\ Len(scores) = 2
  /\ boxes[1] # boxes[2] /\ classes[1] # classes[2]
  /\ scores[1] < min_score /\ scores[2] >= min_score
  /\ filtered_classes = <<classes[2]>>

\* C3: to_image_coords returns (top*height, left*width, bottom*height,
\* right*width) for every row of a float array, values outside [0,1] scaled
\* like the others, and the cell passes the image's height and width in that
\* order; (0.5, 0.25, 1.0, 0.75) at 600 x 1000 gives (300, 250, 600, 750).
C3_ToImageCoordsScales ==
  (Converted /\ dtype = "float32") =>
     LET width == image_size[1]
         height == image_size[2]
     IN /\ Len(box_coords) = Len(filtered_boxes)
        /\ \A k \in 1..Len(box_coords) :
             /\ box_coords[k][1] = filtered_boxes[k][1] * height
             /\ box_coords[k][2] = filtered_boxes[k][2] * width
             /\ box_coords[k][3] = filtered_boxes[k][3] * height
             /\ box_coords[k][4] = filtered_boxes[k][4] * width
             /\ (filtered_boxes[k] = <<2, 1, 4, 3>> /\ height = 600
                   /\ width = 1000)
                  => box_coords[k] = <<300 * Den, 250 * Den, 600 * Den,
                                       750 * Den>>

\* the example box and a box reaching outside [0,1], at 600 x 1000
C3_Witness ==
  /\ pc = "converted" /\ dtype = "float32" /\ image_size = <<1000, 600>>
  /\ filtered_boxes = <<<<2, 1, 4, 3>>, <<-1, 0, 6, 2>>>>
  /\ box_coords = <<<<1200, 1000, 2400, 3000>>, <<-600, 0, 3600, 2000>>>>

BadInput == ~EqualLengths \/ min_score < 0 \/ min_score > 10

\* C4 as stated: a batch whose lengths differ, or a min_score outside
\* [0,1], makes the call fail with InvalidInputError, and there is no other
\* error.
C4_InvalidInputRejected ==
  FilterCalled =>
     /\ BadInput => (pc = "filter_failed" /\ err = "InvalidInputError")
     /\ pc = "filter_failed" => err = "InvalidInputError"

\* C4 amended: nothing is validated and InvalidInputError is never raised;
\* any min_score is accepted; filter_boxes fails, with IndexError, exactly
\* when scores is shorter than classes or a detection it keeps lies beyond
\* the end of boxes, and to_image_coords then raises nothing.
C4_OnlyIndexError ==
  FilterCalled =>
     /\ err # "InvalidInputError"
     /\ pc = "filter_failed" => err = "IndexError"
     /\ pc = "filter_failed" <=>
          \/ Len(scores) < Len(classes)
          \/ \E i \in 1..Len(classes) :
               scores[i] >= min_score /\ i > Len(boxes)
     /\ Converted => Len(box_coords) = Len(filtered_boxes)

\* a threshold above 1 and arrays of three different lengths, accepted
C4_Witness ==
  /\ pc = "converted" /\ min_score > 10
  /\ Len(classes) < Len(scores) /\ Len(boxes) < Len(classes)
  /\ err = "none"

\* C5 as stated: the colour of a detection is
\* COLOR_LIST[class_id % len(COLOR_LIST)], so no class id makes draw_boxes
\* fail.
C5_ColorLookupWraps ==
  DrawCalled =>
     /\ pc = "drawn"
     /\ Len(lines) = Len(box_coords)
     /\ \A k \in 1..Len(lines) :
          lines[k].fill = COLOR_LIST[(filtered_classes[k] % PaletteLen) + 1]

\* the polyline the claim describes for a row (top, left, bottom, right)
ClaimedPolyline(b) ==
  LET top == b[1]
      left == b[2]
      bottom == b[3]
      right == b[4]
  IN <<<<left, top>>, <<left, bottom>>, <<right, bottom>>, <<right, top>>,
       <<left, top>>>>

\* the same rectangle walked from its other left corner
DrawnPolyline(b) ==
  LET top == b[1]
      left == b[2]
      bottom == b[3]
      right == b[4]
  IN <<<<left, bottom>>, <<left, top>>, <<right, top>>, <<right, bottom>>,
       <<left, bottom>>>>

Counted == cpc \in {"counted", "done"}
NotebookConstants ==
  /\ kernel_size = KERNEL_SIZE
  /\ input_channels = INPUT_CHANNELS
  /\ output_channels = OUTPUT_CHANNELS
AllPositive == kernel_size > 0 /\ input_channels > 0 /\ output_channels > 0

ConvWeights == kernel_size * kernel_size * input_channels * output_channels
DepthwiseWeights == kernel_size * kernel_size * input_channels
PointwiseWeights == 1 * 1 * input_channels * output_channels

\* batch-norm parameters per channel under the two conventions of the claim
BNConventions == {2, 4}

\* C7 as stated: the vanilla count is the k*k*in*out convolution weights
\* plus the batch-norm parameters of the out channels under one convention,
\* with no convolution bias; 147456 weights for (3, 32, 512).
C7_VanillaWithoutBias ==
  Counted =>
     /\ \E c \in BNConventions :
          total_vanilla_params = ConvWeights + c * output_channels
     /\ NotebookConstants => ConvWeights = 147456

\* C7 amended: the vanilla count is the k*k*in*out convolution weights plus
\* the out bias terms of the convolution plus the 2*out trainable
\* batch-norm parameters; 147456 weights and 148992 in all for (3, 32, 512).
C7_VanillaWithBias ==
  Counted =>
     /\ total_vanilla_params
          = ConvWeights + output_channels + 2 * output_channels
     /\ vanilla_params[1][2] = ConvWeights
     /\ NotebookConstants =>
          (ConvWeights = 147456 /\ total_vanilla_params = 148992)

C7_Witness ==
  /\ cpc = "counted" /\ NotebookConstants
  /\ total_vanilla_params = 148992

\* C8 as stated: the separable count is the depthwise weights k*k*in plus
\* batch-norm parameters for in channels, plus the pointwise weights in*out
\* plus batch-norm parameters for out channels, and nothing else; the
\* weights are 288 + 16384 = 16672 for (3, 32, 512).
C8_SeparableTwoStagesOnly ==
  Counted =>
     /\ \E c \in BNConventions :
          total_mobile_params
            = (DepthwiseWeights + c * input_channels)
                + (PointwiseWeights + c * output_channels)
     /\ NotebookConstants => DepthwiseWeights + PointwiseWeights = 16672

\* C8 amended: the separable count is the depthwise stage, k*k*in weights
\* plus 2*in batch-norm parameters, plus the pointwise stage, in*out weights
\* plus out bias terms plus 2*out batch-norm parameters; the weights are
\* 288 + 16384 = 16672 and the count 18272 for (3, 32, 512).
C8_SeparableWithPointwiseBias ==
  Counted =>
     /\ total_mobile_params
          = (DepthwiseWeights + 2 * input_channels)
              + (PointwiseWeights + output_channels + 2 * output_channels)
     /\ mobile_params[1][2] = DepthwiseWeights
     /\ mobile_params[4][2] = PointwiseWeights
     /\ NotebookConstants =>
          /\ DepthwiseWeights = 288 /\ PointwiseWeights = 16384
          /\ total_mobile_params = 18272

C8_Witness ==
  /\ cpc = "counted" /\ NotebookConstants
  /\ total_mobile_params = 18272

\* m thousandths is a / b rounded to three decimals
IsRounded(m, a, b) == 2 * (m * b - 1000 * a) \in (0 - b)..b

\* C9 as stated: the printed reduction is the vanilla total over the
\* separable total, and for (3, 32, 512) it is about 8.85 (147456 / 16672),
\* below 9.
C9_ReductionAbout885 ==
  (cpc = "done" /\ NotebookConstants) =>
     /\ reduction.kind = "finite"
     /\ IsRounded(reduction.milli, total_vanilla_params, total_mobile_params)
     /\ reduction.milli \in 8800..8900

\* C9 amended: the printed reduction is the vanilla total over the separable
\* total, and for (3, 32, 512) it is about 8.154 (148992 / 18272), below 9.
C9_ReductionIsRatioOfTotals ==
  (cpc = "done" /\ total_mobile_params > 0) =>
     /\ reduction.kind = "finite"
     /\ IsRounded(reduction.milli, total_vanilla_params, total_mobile_params)
     /\ NotebookConstants =>
          (reduction.milli = 8154 /\ reduction.milli < 9000)

C9_Witness ==
  /\ cpc = "done" /\ NotebookConstants
  /\ total_vanilla_params = 148992 /\ total_mobile_params = 18272
  /\ reduction = [kind |-> "finite", milli |-> 8154]

\* C10 as stated: a spec with a non-positive field is rejected with
\* InvalidInputError before any arithmetic, and a spec with all fields
\* positive has a strictly positive separable count.
C10_NonPositiveRejected ==
  cpc # "start" =>
     /\ ~AllPositive => (cpc = "failed" /\ cerr = "InvalidInputError")
     /\ (AllPositive /\ Counted) => total_mobile_params > 0

\* C10 amended: no spec is rejected with InvalidInputError, the cell checks
\* none of its constants, so a non-positive field reaches the arithmetic
\* unless the framework raises an error of its own; a spec with all fields
\* positive is counted, its separable count is strictly positive and the
\* division gives a finite ratio.
C10_NoValidationPositiveCount ==
  cpc # "start" =>
     /\ cerr # "InvalidInputError"
     /\ AllPositive =>
          /\ cpc # "failed"
          /\ Counted => total_mobile_params > 0
          /\ cpc = "done" => reduction.kind = "finite"

\* input_channels = 0 taken through the sums and the division
C10_Witness ==
  /\ cpc = "done" /\ input_channels = 0 /\ output_channels = OUTPUT_CHANNELS
  /\ cerr = "none"
  /\ total_mobile_params = 3 * OUTPUT_CHANNELS
  /\ reduction = [kind |-> "finite", milli |-> 1000]

\* ------------------------------------------- idempotence, storage, types
\* C11: filtering the filtered batch again with the same threshold returns
\* a batch equal to it, element by element, in all three arrays.
C11_FilterIdempotent ==
  pc = "refiltered" =>
     /\ again.err = "none"
     /\ again.boxes = filtered_boxes
     /\ again.scores = filtered_scores
     /\ again.classes = filtered_classes

\* a batch that loses its first detection and keeps its second, filtered twice
C11_Witness ==
  /\ pc = "refiltered" /\ EqualLengths /\ Len(scores) = 2
  /\ scores[1] < min_score
  /\ filtered_scores = <<scores[2]>>
  /\ again.scores = <<scores[2]>>

\* C12: no step changes the arrays given to filter_boxes, to_image_coords
\* leaves the boxes it is given as they were, and a write into a returned
\* array changes no input array.
C12_InputsUnmodified ==
  [][/\ boxes' = boxes
     /\ scores' = scores
     /\ classes' = classes
     /\ box_coords' # box_coords => filtered_boxes' = filtered_boxes]_vars

\* a returned detection has been overwritten in all three arrays, which no
\* longer hold the elements of the input they were taken from
C12_Witness ==
  /\ pc = "written" /\ Len(idxs) > 0
  /\ storage = [filtered |-> "copy", coords |-> "copy"]
  /\ filtered_boxes # Take(boxes, idxs)
  /\ filtered_scores # Take(scores, idxs)
  /\ filtered_classes # Take(classes, idxs)

\* x / d in thousandths of the coordinate unit
Quotient(x, d) == (1000 * x) \div d

Near(a, b) == a - b \in -1..1

\* C13 as stated: whatever the element type of boxes, dividing the rows of
\* to_image_coords(boxes, height, width) by (height, width, height, width)
\* gives boxes back, within tolerance.
C13_RoundTrip ==
  Converted =>
     LET width == image_size[1]
         height == image_size[2]
     IN \A k \in 1..Len(box_coords) :
          /\ Near(Quotient(box_coords[k][1], height),
                  1000 * filtered_boxes[k][1])
          /\ Near(Quotient(box_coords[k][2], width),
                  1000 * filtered_boxes[k][2])
          /\ Near(Quotient(box_coords[k][3], height),
                  1000 * filtered_boxes[k][3])
          /\ Near(Quotient(box_coords[k][4], width),
                  1000 * filtered_boxes[k][4])

\* ------------------------------------------------------ computation cost
\* fractions as <<numerator, denominator>> with positive denominators
FracEq(a, b) == a[1] * b[2] = b[1] * a[2]
FracLess(a, b) == a[1] * b[2] < b[1] * a[2]
FracAdd(a, b) == <<a[1] * b[2] + b[1] * a[2], a[2] * b[2]>>

\* vanilla cost over separable cost with n output channels
CostRatio(n) ==
  <<vanilla_conv_cost(D_f, M, n, D_k), separable_conv_cost(D_f, M, n, D_k)>>

\* C15: the separable cost over the vanilla cost is (D_k^2 + N)/(D_k^2 * N)
\* and 1/N + 1/D_k^2; with a 3x3 kernel the vanilla cost over the separable
\* cost is below 9, grows with N, and its distance to 9 is 81/(9 + N).
C15_CostReduction ==
  costpc = "done" =>
     /\ FracEq(<<separable_cost, vanilla_cost>>,
               <<D_k * D_k + N, D_k * D_k * N>>)
     /\ FracEq(<<separable_cost, vanilla_cost>>,
               FracAdd(<<1, N>>, <<1, D_k * D_k>>))
     /\ D_k = 3 =>
          /\ FracLess(<<vanilla_cost, separable_cost>>, <<9, 1>>)
          /\ FracLess(<<vanilla_cost, separable_cost>>, CostRatio(N + 1))
          /\ FracEq(<<9 * separable_cost - vanilla_cost, separable_cost>>,
                    <<81, 9 + N>>)

\* a 3x3 kernel with more output channels than kernel cells
C15_Witness ==
  /\ costpc = "done" /\ D_k = 3 /\ N > 9 /\ D_f > 1 /\ M > 1
  /\ vanilla_cost = D_f * D_f * M * N * 9

\* ------------------------------------------------------ video and timing
FrameDetections(img) == Detections(img.boxes, img.scores, img.classes)
AboveCutoff(d) == d[2] >= confidence_cutoff

\* C14 as stated: every input frame gets an output frame, and the boxes
\* rendered on frame k are exactly the detections of frame k with score >=
\* the cutoff 0.8, whatever frames came before.
C14_FramePipeline ==
  vpc \in {"done", "failed"} =>
     /\ vpc = "done"
     /\ Len(new_clip) = Len(clip)
     /\ \A k \in 1..Len(new_clip) :
          /\ new_clip[k].kind = "frame"
          /\ new_clip[k].rendered
               = SelectSeq(FrameDetections(clip[k]), AboveCutoff)

\* C16 as stated: one warm-up inference and then `runs` timed ones, every
\* one fed an image of shape (1, img_height, img_width, 3); the result has
\* `runs` entries, entry i the time of the i-th timed inference in ms.
C16_TimeDetectionUsesArguments ==
  tpc \in {"done", "failed"} =>
     /\ tpc = "done"
     /\ Len(fed) = runs + 1
     /\ \A k \in 1..Len(fed) : fed[k] = <<1, img_height, img_width, 3>>
     /\ Len(times) = runs
     /\ \A i \in 1..Len(times) : times[i] = elapsed[i] * 1000

====
